---------------------------- MODULE Spec2Model ----------------------------
(***************************************************************************)
(* Model of b-reach: the content pipeline of src/src/parser.rs, the file   *)
(* watcher of src/src/watch.rs and the request / live-reload handlers of   *)
(* src/src/server.rs.                                                      *)
(*                                                                         *)
(* Text is a sequence of one-character strings.  Two characters that are   *)
(* not ASCII are written as atoms: "BROKEN_BAR" is U+00A6, the section     *)
(* marker glyph, and "BOM" is U+FEFF.  The fixed live-reload bootstrap     *)
(* script is the single atom "LIVERELOAD_SCRIPT": it is the last thing     *)
(* inserted and nothing is searched for after it.  "BACKTICK" is U+0060.   *)
(***************************************************************************)
EXTENDS Integers, Sequences, FiniteSets, TLC

(***************************************************************************)
(* Option<T>: None is the empty sequence, Some(x) the one-element one.     *)
(***************************************************************************)
None == <<>>
Some(x) == <<x>>
IsSome(o) == o # <<>>
Unwrap(o) == o[1]

Min(a, b) == IF a < b THEN a ELSE b

(***************************************************************************)
(* Characters.                                                             *)
(***************************************************************************)
Printable ==
  <<" ","!","\"","#","$","%","&","'","(",")","*","+",",","-",".","/",
    "0","1","2","3","4","5","6","7","8","9",":",";","<","=",">","?","@",
    "A","B","C","D","E","F","G","H","I","J","K","L","M","N","O","P","Q",
    "R","S","T","U","V","W","X","Y","Z","[","\\","]","^","_","BACKTICK",
    "a","b","c","d","e","f","g","h","i","j","k","l","m","n","o","p","q",
    "r","s","t","u","v","w","x","y","z","{","|","}","~">>

UpperLetters == {Printable[i] : i \in 34..59}
LowerLetters == {Printable[i] : i \in 66..91}
Digits == {Printable[i] : i \in 17..26}

\* char::is_whitespace, on the characters of the model
IsWhitespace(c) == c \in {" ", "\t", "\n", "\r"}

\* char::is_alphanumeric
IsAlphanumeric(c) == c \in UpperLetters \cup LowerLetters \cup Digits

\* The UTF-8 bytes of one character
Utf8Table ==
  [c \in {Printable[i] : i \in 1..Len(Printable)}
         \cup {"\t", "\n", "\r", "BROKEN_BAR", "BOM"} |->
     CASE c = "\t" -> <<9>>
       [] c = "\n" -> <<10>>
       [] c = "\r" -> <<13>>
       [] c = "BROKEN_BAR" -> <<194, 166>>
       [] c = "BOM" -> <<239, 187, 191>>
       [] OTHER -> <<31 + (CHOOSE i \in 1..Len(Printable) : Printable[i] = c)>>]

\* u8::to_ascii_lowercase, per character
LowerTable ==
  [c \in DOMAIN Utf8Table \cup {"LIVERELOAD_SCRIPT"} |->
     IF c \in UpperLetters
       THEN Printable[32 + (CHOOSE i \in 1..Len(Printable) : Printable[i] = c)]
       ELSE c]

\* str::to_ascii_lowercase
to_ascii_lowercase(s) == [i \in 1..Len(s) |-> LowerTable[s[i]]]

\* str::as_bytes (the text is halved to keep the evaluation shallow)
RECURSIVE as_bytes(_)
as_bytes(s) ==
  IF s = <<>> THEN <<>>
  ELSE IF Len(s) = 1 THEN Utf8Table[s[1]]
  ELSE as_bytes(SubSeq(s, 1, Len(s) \div 2))
         \o as_bytes(SubSeq(s, Len(s) \div 2 + 1, Len(s)))

(***************************************************************************)
(* str helpers of the standard library, as parser.rs uses them.            *)
(***************************************************************************)
\* s[from..to) with 0-based byte offsets, as Rust slices
Slice(s, from, to) == SubSeq(s, from + 1, to)

StartsWith(s, p) == Len(p) <= Len(s) /\ SubSeq(s, 1, Len(p)) = p

\* str::find: the 0-based offset of the first occurrence
Find(h, n) ==
  LET hits == {i \in 0..(Len(h) - Len(n)) : SubSeq(h, i + 1, i + Len(n)) = n}
  IN IF hits = {} THEN None
     ELSE Some(CHOOSE i \in hits : \A j \in hits : i <= j)

trim_start(s) ==
  LET solid == {i \in 1..Len(s) : ~IsWhitespace(s[i])}
  IN IF solid = {} THEN <<>>
     ELSE SubSeq(s, CHOOSE i \in solid : \A j \in solid : i <= j, Len(s))

trim_end(s) ==
  LET solid == {i \in 1..Len(s) : ~IsWhitespace(s[i])}
  IN IF solid = {} THEN <<>>
     ELSE SubSeq(s, 1, CHOOSE i \in solid : \A j \in solid : i >= j)

trim(s) == trim_end(trim_start(s))

\* String::insert_str
insert_str(s, at, t) == Slice(s, 0, at) \o t \o Slice(s, at, Len(s))

\* [String]::join
RECURSIVE join(_, _)
join(parts, sep) ==
  IF parts = <<>> THEN <<>>
  ELSE IF Len(parts) = 1 THEN parts[1]
  ELSE parts[1] \o sep \o join(Tail(parts), sep)

\* str::split on a pattern
RECURSIVE split(_, _)
split(s, pat) ==
  LET at == Find(s, pat)
  IN IF at = None THEN <<s>>
     ELSE <<Slice(s, 0, Unwrap(at))>>
            \o split(Slice(s, Unwrap(at) + Len(pat), Len(s)), pat)

\* str::lines, on text whose only line terminator is "\n"
lines(s) ==
  LET parts == split(s, <<"\n">>)
  IN IF parts[Len(parts)] = <<>> THEN SubSeq(parts, 1, Len(parts) - 1)
     ELSE parts

\* u64 formatted with {}
RECURSIVE to_decimal(_)
to_decimal(n) ==
  IF n < 10 THEN <<Printable[17 + n]>>
  ELSE to_decimal(n \div 10) \o <<Printable[17 + (n % 10)]>>

(***************************************************************************)
(* parser.rs: splitting the document into sections.                        *)
(***************************************************************************)
\* str::replace
RECURSIVE replace(_, _, _)
replace(s, from, to) ==
  LET at == Find(s, from)
  IN IF at = None THEN s
     ELSE Slice(s, 0, Unwrap(at)) \o to
            \o replace(Slice(s, Unwrap(at) + Len(from), Len(s)), from, to)

normalize_newlines(s) ==
  replace(replace(s, <<"\r", "\n">>, <<"\n">>), <<"\r">>, <<"\n">>)

\* str::trim_start_matches(pattern character)
RECURSIVE trim_start_matches(_, _)
trim_start_matches(s, c) ==
  IF s # <<>> /\ Head(s) = c THEN trim_start_matches(Tail(s), c) ELSE s

\* chars().take_while(|c| c.is_alphanumeric())
RECURSIVE take_while_alphanumeric(_)
take_while_alphanumeric(s) ==
  IF s # <<>> /\ IsAlphanumeric(Head(s))
    THEN <<Head(s)>> \o take_while_alphanumeric(Tail(s)) ELSE <<>>

eq_ignore_ascii_case(a, b) == to_ascii_lowercase(a) = to_ascii_lowercase(b)

\* The tests of starts_with_section_marker on the line without its leading
\* whitespace
MarkerNamed(l, name) ==
  IF l = <<>> \/ Head(l) # "BROKEN_BAR" THEN FALSE
  ELSE eq_ignore_ascii_case(take_while_alphanumeric(Tail(l)), name)

\* A fault for comparison: the marker matched as a literal prefix of the
\* line, in the case of the keyword as written
ExactMarker(line, name) == StartsWith(line, <<"BROKEN_BAR">> \o name)

starts_with_section_marker(line, name) == MarkerNamed(trim_start(line), name)

\* The section a marker line switches to, "NotMarker" for any other line;
\* the tests run in the order of the loop body
MarkerOf(line) ==
  IF starts_with_section_marker(line, <<"h","t","m","l">>) THEN "Markup"
  ELSE IF starts_with_section_marker(line, <<"c","s","s">>) THEN "CssStyling"
  ELSE IF starts_with_section_marker(line, <<"s","c","s","s">>) THEN "ScssStyling"
  ELSE IF \/ starts_with_section_marker(line, <<"j","s">>)
          \/ starts_with_section_marker(line, <<"t","s">>)
          \/ starts_with_section_marker(line,
                                       <<"t","y","p","e","s","c","r","i","p","t">>)
    THEN "Script"
  ELSE "NotMarker"

\* The loop over the lines: cur is the active section, acc the four vectors,
\* m what MarkerOf says of the first line
RECURSIVE CollectLines(_, _, _)
CollectLine(ls, cur, acc, m) ==
  IF m # "NotMarker" THEN CollectLines(Tail(ls), m, acc)
  ELSE IF cur = "None" THEN CollectLines(Tail(ls), cur, acc)
  ELSE CollectLines(Tail(ls), cur, [acc EXCEPT ![cur] = Append(@, Head(ls))])

CollectLines(ls, cur, acc) ==
  IF ls = <<>> THEN acc ELSE CollectLine(ls, cur, acc, MarkerOf(Head(ls)))

CSS_TAG == <<"/","*"," ","C","S","S"," ","*","/">>
SCSS_TAG == <<"/","*"," ","S","C","S","S"," ","*","/">>
EOF_TAG == <<"/","*"," ","E","O","F"," ","*","/">>

\* if !text.trim().is_empty() { Some(text) } else { None }
NonBlank(text) == IF trim(text) = <<>> THEN None ELSE Some(text)

\* What one of the two styling vectors pushes to styling_sections
TaggedSection(tag, styling) ==
  IF trim(styling) # <<>>
    THEN <<tag \o <<"\n">> \o styling \o <<"\n">> \o EOF_TAG>>
    ELSE <<>>

\* if !styling_sections.is_empty() { Some(styling_sections.join("\n\n")) }
JoinedSections(styling_sections) ==
  IF styling_sections = <<>> THEN None
  ELSE Some(join(styling_sections, <<"\n", "\n">>))

\* The part of parse_breach_content after the loop: the CSS lines are pushed
\* before the SCSS lines
SectionsOf(acc) ==
  [markup |-> NonBlank(join(acc.Markup, <<"\n">>)),
   styling |-> JoinedSections(
                 TaggedSection(CSS_TAG, join(acc.CssStyling, <<"\n">>))
                   \o TaggedSection(SCSS_TAG, join(acc.ScssStyling, <<"\n">>))),
   script |-> NonBlank(join(acc.Script, <<"\n">>))]

parse_breach_content(input) ==
  SectionsOf(
    CollectLines(lines(normalize_newlines(trim_start_matches(input, "BOM"))),
                 "None",
                 [Markup |-> <<>>, CssStyling |-> <<>>, ScssStyling |-> <<>>,
                  Script |-> <<>>]))

(***************************************************************************)
(* parser.rs: styling.  compile_scss_to_css calls the grass crate, which   *)
(* is outside the repository: the stand-in below fails on unbalanced       *)
(* braces and otherwise returns its input followed by a newline.           *)
(***************************************************************************)
Count(s, c) == Cardinality({i \in 1..Len(s) : s[i] = c})

compile_scss_to_css(scss_content) ==
  IF Count(scss_content, "{") # Count(scss_content, "}")
    THEN [ok |-> FALSE, css |-> <<>>]
    ELSE [ok |-> TRUE, css |-> scss_content \o <<"\n">>]

\* What a CSS section pushes: its text, unless blank
CssSection(css) == IF css # <<>> THEN <<css>> ELSE <<>>

\* What an SCSS section pushes: the compiled CSS, or the SCSS itself when
\* the compilation fails
ScssCompiled(scss, r) == IF r.ok THEN <<r.css>> ELSE <<scss>>

ScssSection(scss) ==
  IF scss = <<>> THEN <<>> ELSE ScssCompiled(scss, compile_scss_to_css(scss))

\* The body of the loop over the sections, on the trimmed section
TrimmedSection(trimmed) ==
  IF trimmed = <<>> THEN <<>>
  ELSE IF StartsWith(trimmed, CSS_TAG)
    THEN CssSection(trim(Slice(trimmed, Len(CSS_TAG), Len(trimmed))))
  ELSE IF StartsWith(trimmed, SCSS_TAG)
    THEN ScssSection(trim(Slice(trimmed, Len(SCSS_TAG), Len(trimmed))))
  ELSE <<trimmed>>

StylingSection(section) == TrimmedSection(trim(section))

RECURSIVE StylingSections(_)
StylingSections(sections) ==
  IF sections = <<>> THEN <<>>
  ELSE StylingSection(Head(sections)) \o StylingSections(Tail(sections))

process_styling_content(styling_content) ==
  join(StylingSections(split(styling_content, EOF_TAG)), <<"\n", "\n">>)

(***************************************************************************)
(* parser.rs: the fingerprint.  FxHasher64 is                              *)
(*   hash = (hash.rotate_left(5) ^ word).wrapping_mul(SEED)                *)
(* over 64 bits.  The model keeps the rotate, the xor and the wrapping     *)
(* multiplication, at a width of HashBits bits, one byte per word, with    *)
(* the low bits of the seed.                                               *)
(***************************************************************************)
HashBits == 16
FxRotate == 5
FxSeed == 2709

RECURSIVE Pow2(_)
Pow2(n) == IF n = 0 THEN 1 ELSE 2 * Pow2(n - 1)

HashModulus == Pow2(HashBits)

RECURSIVE BitXor(_, _)
BitXor(a, b) ==
  IF a = 0 THEN b
  ELSE IF b = 0 THEN a
  ELSE ((a + b) % 2) + 2 * BitXor(a \div 2, b \div 2)

rotate_left(h) ==
  ((h * Pow2(FxRotate)) % HashModulus) + (h \div Pow2(HashBits - FxRotate))

add_to_hash(h, word) == (BitXor(rotate_left(h), word) * FxSeed) % HashModulus

\* Hasher::write: add_to_hash over the bytes, first to last.  The bytes are
\* halved, and the hash of the first half is computed before the second half
\* is entered, to keep the evaluation shallow
RECURSIVE hasher_write(_, _)
hasher_write(h, bytes) ==
  IF bytes = <<>> THEN h
  ELSE IF Len(bytes) = 1 THEN add_to_hash(h, bytes[1])
  ELSE LET mid == Len(bytes) \div 2
           first == hasher_write(h, SubSeq(bytes, 1, mid))
       IN IF first >= 0
            THEN hasher_write(first, SubSeq(bytes, mid + 1, Len(bytes)))
            ELSE first

NO_SCRIPT == <<"N","O","_","S","C","R","I","P","T">>

\* if let Some(text) = &field { hasher.write(text.as_bytes()) }
HashOption(h, field) ==
  IF IsSome(field) THEN hasher_write(h, as_bytes(Unwrap(field))) ELSE h

\* The script, or the NO_SCRIPT sentinel in its place
HashScript(h, script) ==
  hasher_write(h, as_bytes(IF IsSome(script) THEN Unwrap(script)
                           ELSE NO_SCRIPT))

\* The fingerprint of the three final artifacts, as prepare computes it
Fingerprint(parsed) ==
  HashScript(HashOption(HashOption(0, parsed.markup), parsed.styling),
             parsed.script)

(***************************************************************************)
(* parser.rs: link injection.  A function that can panic returns a record  *)
(* with a panic flag; a panic unwinds through its callers.                 *)
(***************************************************************************)
TITLE_OPEN == <<"<","t","i","t","l","e",">">>
TITLE_CLOSE == <<"<","/","t","i","t","l","e",">">>
HEAD_OPEN == <<"<","h","e","a","d",">">>
HEAD_CLOSE == <<"<","/","h","e","a","d",">">>
HTML_OPEN == <<"<","h","t","m","l",">">>
BODY_CLOSE == <<"<","/","b","o","d","y",">">>
INDENT == <<"\n"," "," "," "," ">>
META_CHARSET ==
  <<"<","m","e","t","a"," ","c","h","a","r","s","e","t","=","\"","u","t","f",
    "-","8","\"",">">>
LINK_PREFIX ==
  <<"<","l","i","n","k"," ","r","e","l","=","\"","s","t","y","l","e","s","h",
    "e","e","t","\""," ","h","r","e","f","=","\"","/","s","t","y","l","e",".",
    "c","s","s","?","v","=">>
LINK_SUFFIX == <<"\"",">">>
SCRIPT_PREFIX ==
  <<"<","s","c","r","i","p","t"," ","s","r","c","=","\"","/","s","c","r","i",
    "p","t",".","j","s","?","v","=">>
SCRIPT_SUFFIX == <<"\"",">","<","/","s","c","r","i","p","t",">">>
LIVERELOAD == <<"LIVERELOAD_SCRIPT">>

find_case_insensitive(haystack, needle) ==
  Find(to_ascii_lowercase(haystack), to_ascii_lowercase(needle))

\* html[ts + 7..te] panics when the slice starts after its end, which is when
\* the first </title> lies before the first <title>
extract_and_remove_title(html) ==
  LET title_start == find_case_insensitive(html, TITLE_OPEN)
      title_end == IF IsSome(title_start)
                     THEN find_case_insensitive(html, TITLE_CLOSE) ELSE None
  IN IF IsSome(title_start) /\ IsSome(title_end)
       THEN LET ts == Unwrap(title_start)
                te == Unwrap(title_end)
            IN IF ts + Len(TITLE_OPEN) > te
                 THEN [panic |-> TRUE, result |-> <<>>, title |-> None]
                 ELSE [panic |-> FALSE,
                       result |-> Slice(html, 0, ts)
                                    \o Slice(html, te + Len(TITLE_CLOSE), Len(html)),
                       title |-> Some(trim(Slice(html, ts + Len(TITLE_OPEN), te)))]
       ELSE [panic |-> FALSE, result |-> html, title |-> None]

\* A fault for comparison: <head> looked for before </head>, and no head
\* synthesised after <html>
HeadOpenFirst(html, link_tag, title_content) ==
  IF IsSome(find_case_insensitive(html, HEAD_OPEN))
    THEN insert_str(html,
                    Unwrap(find_case_insensitive(html, HEAD_OPEN))
                      + Len(HEAD_OPEN),
                    INDENT \o link_tag)
  ELSE IF IsSome(find_case_insensitive(html, HEAD_CLOSE))
    THEN insert_str(html, Unwrap(find_case_insensitive(html, HEAD_CLOSE)),
                    INDENT \o link_tag)
  ELSE HEAD_OPEN \o INDENT \o META_CHARSET \o INDENT \o link_tag
         \o <<"\n">> \o HEAD_CLOSE \o <<"\n">> \o html

inject_css_link(html, link_tag, title_content) ==
  LET head_end == find_case_insensitive(html, HEAD_CLOSE)
      head_start == find_case_insensitive(html, HEAD_OPEN)
      html_open == find_case_insensitive(html, HTML_OPEN)
      title_line == IF IsSome(title_content)
                      THEN INDENT \o TITLE_OPEN \o Unwrap(title_content)
                             \o TITLE_CLOSE
                      ELSE <<>>
  IN IF IsSome(head_end)
       THEN insert_str(html, Unwrap(head_end), INDENT \o link_tag)
     ELSE IF IsSome(head_start)
       THEN insert_str(html, Unwrap(head_start) + Len(HEAD_OPEN),
                       INDENT \o link_tag)
     ELSE IF IsSome(html_open)
       THEN insert_str(html, Unwrap(html_open) + Len(HTML_OPEN),
                       <<"\n">> \o HEAD_OPEN \o INDENT \o link_tag \o title_line
                         \o <<"\n">> \o HEAD_CLOSE)
     ELSE HEAD_OPEN \o INDENT \o META_CHARSET \o INDENT \o link_tag
            \o title_line \o <<"\n">> \o HEAD_CLOSE \o <<"\n">> \o html

inject_js_script(html, script_tag) ==
  LET body_end == find_case_insensitive(html, BODY_CLOSE)
  IN IF IsSome(body_end)
       THEN insert_str(html, Unwrap(body_end), INDENT \o script_tag)
       ELSE html \o <<"\n">> \o script_tag

\* The two script injections: script.js when there is a script, then the
\* live-reload script
InjectScripts(html, has_js, script_tag) ==
  inject_js_script(IF has_js THEN inject_js_script(html, script_tag) ELSE html,
                   LIVERELOAD)

\* inject_links_once after extract_and_remove_title returned t
InjectAfterTitle(t, has_css, has_js, fingerprint) ==
  IF t.panic THEN [panic |-> TRUE, out |-> <<>>]
  ELSE [panic |-> FALSE,
        out |-> InjectScripts(
                  IF has_css
                    THEN inject_css_link(
                           t.result,
                           LINK_PREFIX \o to_decimal(fingerprint) \o LINK_SUFFIX,
                           t.title)
                    ELSE t.result,
                  has_js,
                  SCRIPT_PREFIX \o to_decimal(fingerprint) \o SCRIPT_SUFFIX)]

inject_links_once(html, has_css, has_js, fingerprint) ==
  InjectAfterTitle(extract_and_remove_title(html), has_css, has_js, fingerprint)

(***************************************************************************)
(* parser.rs: prepare and load_prepared_from_file.                         *)
(***************************************************************************)
\* The tail of prepare: the struct it returns, a panic of the injection
\* unwinding through it
PreparedFrom(parsed, fingerprint, injected) ==
  IF IsSome(parsed.markup) /\ injected.panic
    THEN [panic |-> TRUE]
    ELSE [panic |-> FALSE,
          prepared |-> [parsed |-> parsed,
                        html_injected |-> IF IsSome(parsed.markup)
                                            THEN Some(injected.out) ELSE None,
                        fingerprint |-> fingerprint]]

\* The middle of prepare: the injection into the markup, if there is markup
InjectInto(parsed, fingerprint) ==
  PreparedFrom(parsed, fingerprint,
               inject_links_once(Unwrap(parsed.markup), IsSome(parsed.styling),
                                 IsSome(parsed.script), fingerprint))

\* The middle of prepare: the hash of the final artifacts
HashFinal(parsed) == InjectInto(parsed, Fingerprint(parsed))

\* The head of prepare: the styling replaced by its processed form, dropped
\* when that is blank
FinalCss(styling, processed_css) ==
  IF IsSome(styling) /\ trim(processed_css) # <<>>
    THEN Some(processed_css) ELSE None

prepare(parsed0) ==
  HashFinal([parsed0 EXCEPT
               !.styling = FinalCss(parsed0.styling,
                                    process_styling_content(
                                      Unwrap(parsed0.styling)))])

\* The part of load_prepared_from_file after a successful fs::read
load_prepared(bytes) == prepare(parse_breach_content(bytes))

(***************************************************************************)
(* The state.  The first group is the program's; the ghost group records   *)
(* history for the properties and is never read by an action's guard.      *)
(*                                                                         *)
(* A PreparedContent is immutable once built and is held by reference.     *)
(* The state names each of its three fields by the file version whose      *)
(* pipeline run produced it; the values are those of Loaded (below).       *)
(***************************************************************************)
VARIABLES
  file,             \* the watched file on disk: an index into Documents
  readable,         \* whether fs::read of the watched file succeeds
  rx,               \* the crossbeam channel from EventForwarder to the watcher
  wpc,              \* the watcher thread's position in its loop
  last_event_time,  \* Option<Instant>, kept as the time elapsed since then
  waited,           \* the time the current select has been blocked
  new_prepared,     \* the watcher's local of that name
  last_fingerprint, \* the watcher's local of that name
  content,          \* the ArcSwap slot: the current Arc<PreparedContent>
  ring,             \* the broadcast channel: one entry per value sent
  subs,             \* the live-reload connections and their forwarding tasks
  readers,          \* the request handlers
  published,        \* ghost: every snapshot stored, the startup one first
  writes,           \* ghost: the number of writes to the file so far
  pass,             \* ghost: the reload pass in progress, and what it found
  cycle,            \* ghost: what happened in the current burst of events
  inj,              \* the inputs and the result of one run of the injector
  src               \* the input and the results of one run of the parser

vars ==
  <<file, readable, rx, wpc, last_event_time, waited, new_prepared,
    last_fingerprint, content, ring, subs, readers, published, writes, pass,
    cycle, inj, src>>

watcherVars ==
  <<wpc, last_event_time, waited, new_prepared, last_fingerprint, pass, cycle>>

(***************************************************************************)
(* Bounds of the model and constants of the program.                       *)
(***************************************************************************)
MaxWrites == 2      \* writes to the file in one run
MaxQueue == 2       \* events waiting in rx
NumSubs == 2        \* live-reload connection slots
NumReaders == 1     \* request-handling workers

TICK_MS == 50       \* the select's default(Duration::from_millis(50))
DEBOUNCE_MS == 100  \* event_time.elapsed() >= Duration::from_millis(100)

\* The capacity given to tokio::sync::broadcast::channel where AppState is
\* built.  That call is not in the sources at hand; tokio requires it > 0.
BROADCAST_CAPACITY == 1

TimeSteps == {TICK_MS}

SubIds == 1..NumSubs
ReaderIds == 1..NumReaders

(***************************************************************************)
(* The versions of the watched file.  2 differs from 1 only before the     *)
(* first marker; 4 has its closing title tag before the opening one.       *)
(***************************************************************************)
Documents ==
  << <<"BROKEN_BAR","h","t","m","l","\n","<","p",">","a","<","/","p",">">>,
     <<"n","o","t","e","\n","BROKEN_BAR","h","t","m","l","\n","<","p",">","a",
       "<","/","p",">">>,
     <<"BROKEN_BAR","h","t","m","l","\n","<","p",">","b","<","/","p",">","\n",
       "BROKEN_BAR","c","s","s","\n","p","{","}">>,
     <<"BROKEN_BAR","h","t","m","l","\n","<","/","t","i","t","l","e",">","<",
       "t","i","t","l","e",">">> >>

DocIds == 1..Len(Documents)

\* load_prepared of every version
Loaded == [d \in DocIds |-> load_prepared(Documents[d])]

\* The PreparedContent that prepare builds from version d
Built(d) == [parsed |-> d, html_injected |-> d, fingerprint |-> d]

\* The fields of a PreparedContent
ParsedOf(p) == Loaded[p.parsed].prepared.parsed
HtmlInjectedOf(p) == Loaded[p.html_injected].prepared.html_injected
FingerprintOf(p) == Loaded[p.fingerprint].prepared.fingerprint
ValueOf(p) ==
  [parsed |-> ParsedOf(p), html_injected |-> HtmlInjectedOf(p),
   fingerprint |-> FingerprintOf(p)]

\* load_prepared_from_file(&path) with the file system as it is
load_prepared_from_file(f, can_read) ==
  IF ~can_read THEN [kind |-> "Err"]
  ELSE IF Loaded[f].panic THEN [kind |-> "Panic"]
  ELSE [kind |-> "Ok", prepared |-> Built(f)]

(***************************************************************************)
(* The file system and the notify backend.                                 *)
(***************************************************************************)
\* An event as the backend hands it to EventForwarder: Ok(Event) or Err
ModifyWatched == [ok |-> TRUE, kind |-> "Modify", watched |-> TRUE]
BackendEvents ==
  {ModifyWatched,
   [ok |-> TRUE, kind |-> "Modify", watched |-> FALSE],
   [ok |-> TRUE, kind |-> "Other", watched |-> TRUE],
   [ok |-> FALSE, kind |-> "Other", watched |-> FALSE]}

\* EventForwarder::handle_event: an Ok event is sent, an Err is dropped; a
\* send after the watcher thread is gone fails and is ignored
handle_event(queue, event, receiver_alive) ==
  IF event.ok /\ receiver_alive THEN Append(queue, event) ELSE queue

\* An editor writes version d of the file; the backend reports it
WriteFile(d) ==
  /\ writes < MaxWrites
  /\ Len(rx) < MaxQueue
  /\ d # file \/ ~readable
  /\ file' = d
  /\ readable' = TRUE
  /\ writes' = writes + 1
  /\ rx' = handle_event(rx, ModifyWatched, wpc # "dead")
  /\ UNCHANGED <<watcherVars, content, ring, subs, readers, published, inj, src>>

\* The file is removed or made unreadable
RemoveFile ==
  /\ readable
  /\ readable' = FALSE
  /\ UNCHANGED <<file, rx, writes, watcherVars, content, ring, subs, readers,
                 published, inj, src>>

\* The backend reports an event that no write of the model caused: a touch
\* of the file, an event of another kind or path, or a backend error
BackendEvent(event) ==
  /\ Len(rx) < MaxQueue
  /\ rx' = handle_event(rx, event, wpc # "dead")
  /\ UNCHANGED <<file, readable, writes, watcherVars, content, ring, subs,
                 readers, published, inj, src>>

\* Time passes
Advance(d) ==
  /\ last_event_time' =
       IF IsSome(last_event_time)
         THEN Some(Min(Unwrap(last_event_time) + d, DEBOUNCE_MS))
         ELSE None
  /\ waited' = IF wpc = "select" THEN Min(waited + d, TICK_MS) ELSE waited
  /\ cycle' = [cycle EXCEPT !.quiet = Min(@ + d, DEBOUNCE_MS)]
  /\ UNCHANGED <<file, readable, rx, wpc, new_prepared, last_fingerprint,
                 content, ring, subs, readers, published, writes, pass,
                 inj, src>>

(***************************************************************************)
(* watch.rs: the watcher thread.                                           *)
(***************************************************************************)
\* A fault for comparison: the kind and the paths of the event not looked at
AnyEvent(event) == TRUE

\* if let EventKind::Modify(_) = event.kind, event.paths.contains(..)
EventMatches(event) == event.kind = "Modify" /\ event.watched

\* A fault for comparison: a threshold that every pending event has reached
NoDebounce(elapsed) == elapsed >= 0

\* event_time.elapsed() >= Duration::from_millis(100)
DebounceElapsed(elapsed) == elapsed >= DEBOUNCE_MS

\* A fault for comparison: every loaded snapshot counts as changed
AlwaysChanged(new_fingerprint, last) == TRUE

\* new_fingerprint != last_fingerprint
FingerprintChanged(new_fingerprint, last) == new_fingerprint # last

\* The outcome of the match on load_prepared_from_file and of the comparison
PassOutcome(loaded, last) ==
  IF loaded.kind # "Ok" THEN loaded.kind
  ELSE IF FingerprintChanged(FingerprintOf(loaded.prepared), last)
    THEN "Changed"
  ELSE "Unchanged"

\* A fault for comparison: the broadcast placed before the store
SendFirst(pc, outcome) ==
  CASE pc = "load" /\ outcome = "Changed" -> "send"
    [] pc = "load" /\ outcome \in {"Unchanged", "Err"} -> "clear"
    [] pc = "load" /\ outcome = "Panic" -> "dead"
    [] pc = "send" -> "store"
    [] pc = "store" -> "set_fingerprint"
    [] pc = "set_fingerprint" -> "clear"
    [] pc = "clear" -> "select"

\* A fault for comparison: the store made for an unchanged fingerprint too
StoreAlways(pc, outcome) ==
  CASE pc = "load" /\ outcome \in {"Changed", "Unchanged"} -> "store"
    [] pc = "load" /\ outcome = "Err" -> "clear"
    [] pc = "load" /\ outcome = "Panic" -> "dead"
    [] pc = "store" -> "set_fingerprint"
    [] pc = "set_fingerprint" -> "send"
    [] pc = "send" -> "clear"
    [] pc = "clear" -> "select"

\* A fault for comparison: the assignment to last_fingerprint left out
SkipSetFingerprint(pc, outcome) ==
  CASE pc = "load" /\ outcome = "Changed" -> "store"
    [] pc = "load" /\ outcome \in {"Unchanged", "Err"} -> "clear"
    [] pc = "load" /\ outcome = "Panic" -> "dead"
    [] pc = "store" -> "send"
    [] pc = "set_fingerprint" -> "send"
    [] pc = "send" -> "clear"
    [] pc = "clear" -> "select"

\* The order of the statements of the default branch: where the thread goes
\* after the step at position pc
AfterStep(pc, outcome) ==
  CASE pc = "load" /\ outcome = "Changed" -> "store"
    [] pc = "load" /\ outcome \in {"Unchanged", "Err"} -> "clear"
    [] pc = "load" /\ outcome = "Panic" -> "dead"
    [] pc = "store" -> "set_fingerprint"
    [] pc = "set_fingerprint" -> "send"
    [] pc = "send" -> "clear"
    [] pc = "clear" -> "select"

\* A fault for comparison: a store that writes the fields one at a time and
\* is seen before the injected markup is written
TornStore(current, new) ==
  [new EXCEPT !.snap.html_injected = current.snap.html_injected]

\* ArcSwap::store: the slot holds the new value
ArcSwapStore(current, new) == new

\* broadcast::Sender::send: Err, and nothing queued, without a receiver
Receivers == {s \in SubIds : subs[s].task \in {"recv", "send"}}

\* Ghost: the receivers whose connection is open; the counts are kept for
\* them only
Listeners == {s \in Receivers : subs[s].conn = "open"}

\* Ghost: no reload pass is in progress
NoPass == [outcome |-> "none"]

\* Ghost: a burst is a run of matching events, each consumed less than the
\* debounce threshold after the one before; quiet is the time since the last
\* of them.  The counts are those of the current burst.
NoBurst ==
  [events |-> 0, reads |-> 0, publishes |-> 0, broadcasts |-> 0,
   quiet |-> DEBOUNCE_MS]

BurstAfter(c, matches) ==
  IF ~matches THEN c
  ELSE IF c.quiet >= DEBOUNCE_MS THEN [NoBurst EXCEPT !.events = 1, !.quiet = 0]
  ELSE [c EXCEPT !.events = Min(@ + 1, 2), !.quiet = 0]

\* recv(rx) -> event
WatcherRecv ==
  /\ wpc = "select"
  /\ rx # <<>>
  /\ rx' = Tail(rx)
  /\ last_event_time' =
       IF EventMatches(Head(rx)) THEN Some(0) ELSE last_event_time
  /\ waited' = 0
  /\ cycle' = BurstAfter(cycle, EventMatches(Head(rx)))
  /\ UNCHANGED <<file, readable, wpc, new_prepared, last_fingerprint, content,
                 ring, subs, readers, published, writes, pass, inj, src>>

\* default(Duration::from_millis(50)): no event for 50 ms
WatcherTimeout ==
  /\ wpc = "select"
  /\ rx = <<>>
  /\ waited >= TICK_MS
  /\ waited' = 0
  /\ wpc' = IF IsSome(last_event_time) /\ DebounceElapsed(Unwrap(last_event_time))
              THEN "load" ELSE "select"
  /\ UNCHANGED <<file, readable, rx, last_event_time, new_prepared,
                 last_fingerprint, content, ring, subs, readers, published,
                 writes, pass, cycle, inj, src>>

\* match parser::load_prepared_from_file(&path), and the comparison
WatcherLoad ==
  /\ wpc = "load"
  /\ LET loaded == load_prepared_from_file(file, readable)
         outcome == PassOutcome(loaded, last_fingerprint)
     IN /\ new_prepared' = IF loaded.kind = "Ok" THEN Some(loaded.prepared)
                           ELSE None
        /\ wpc' = AfterStep("load", outcome)
        /\ pass' = [outcome |-> outcome, read |-> file,
                    gen |-> Len(published) + 1,
                    content |-> content, ring |-> ring,
                    last_fingerprint |-> last_fingerprint, send |-> "none"]
  /\ cycle' = [cycle EXCEPT !.reads = @ + 1]
  /\ UNCHANGED <<file, readable, rx, last_event_time, waited, last_fingerprint,
                 content, ring, subs, readers, published, writes, inj, src>>

\* content.store(Arc::new(new_prepared))
WatcherStore ==
  /\ wpc = "store"
  /\ content' = ArcSwapStore(content, [snap |-> Unwrap(new_prepared),
                                       gen |-> pass.gen])
  /\ published' = Append(published, Unwrap(new_prepared))
  /\ subs' = [s \in SubIds |->
                IF s \in Listeners
                  THEN [subs[s] EXCEPT !.pubs = @ + 1] ELSE subs[s]]
  /\ cycle' = [cycle EXCEPT !.publishes = @ + 1]
  /\ wpc' = AfterStep("store", pass.outcome)
  /\ UNCHANGED <<file, readable, rx, last_event_time, waited, new_prepared,
                 last_fingerprint, ring, readers, writes, pass, inj, src>>

\* last_fingerprint = new_fingerprint
WatcherSetFingerprint ==
  /\ wpc = "set_fingerprint"
  /\ last_fingerprint' = FingerprintOf(Unwrap(new_prepared))
  /\ wpc' = AfterStep("set_fingerprint", pass.outcome)
  /\ UNCHANGED <<file, readable, rx, last_event_time, waited, new_prepared,
                 content, ring, subs, readers, published, writes, pass, cycle,
                 inj, src>>

\* A fault for comparison: the result of the send unwrapped, so that an Err
\* panics and ends the thread
UnwrapSend(sent, next) == IF sent = "Err" THEN "dead" ELSE next

\* match reload_tx.send(()) { Ok(_) => info!(..), Err(e) => error!(..) }:
\* both arms only log, and the thread goes on to the next statement
AfterSend(sent, next) == next

\* reload_tx.send(()) and the match on its result
WatcherSend ==
  /\ wpc = "send"
  /\ IF Receivers # {}
       THEN /\ ring' = Append(ring, pass.gen)
            /\ subs' = [s \in SubIds |->
                          IF s \in Listeners
                            THEN [subs[s] EXCEPT !.heard = @ + 1] ELSE subs[s]]
            /\ pass' = [pass EXCEPT !.send = "Ok"]
       ELSE /\ UNCHANGED <<ring, subs>>
            /\ pass' = [pass EXCEPT !.send = "Err"]
  /\ cycle' = [cycle EXCEPT !.broadcasts = @ + 1]
  /\ wpc' = AfterSend(IF Receivers # {} THEN "Ok" ELSE "Err",
                      AfterStep("send", pass.outcome))
  /\ UNCHANGED <<file, readable, rx, last_event_time, waited, new_prepared,
                 last_fingerprint, content, readers, published, writes,
                 inj, src>>

\* last_event_time = None, and back to the select
WatcherClear ==
  /\ wpc = "clear"
  /\ last_event_time' = None
  /\ new_prepared' = None
  /\ waited' = 0
  /\ wpc' = AfterStep("clear", pass.outcome)
  /\ pass' = NoPass
  /\ UNCHANGED <<file, readable, rx, last_fingerprint, content, ring, subs,
                 readers, published, writes, cycle, inj, src>>

(***************************************************************************)
(* server.rs: ws_livereload.  Each connection subscribes to the broadcast  *)
(* channel and spawns a task that forwards every signal to its sink.       *)
(*   task: none | recv (in reload_rx.recv().await) | send (in              *)
(*         sink.send(..).await) | ended                                    *)
(*   conn: none | open | closed (the peer is gone)                         *)
(*   pos:  the number of channel entries this receiver is past             *)
(*   wire: the messages written to the sink                                *)
(*   heard: ghost, the broadcasts made while this receiver existed         *)
(*   pubs: ghost, the publishes made while this receiver existed           *)
(*   end: ghost, what ended the task                                       *)
(***************************************************************************)
NoSub ==
  [task |-> "none", conn |-> "none", pos |-> 0, wire |-> <<>>, heard |-> 0,
   pubs |-> 0, end |-> "none"]

RELOAD == "reload"

\* A subscriber whose connection is closed: the ghost counts are dropped
Closed(sub) ==
  [sub EXCEPT !.conn = "closed", !.wire = <<>>, !.heard = 0, !.pubs = 0]

\* A subscriber whose task has ended: the receiver is dropped with it
Ended(sub, why) ==
  [sub EXCEPT !.task = "ended", !.end = why, !.pos = 0]

\* broadcast::Receiver::recv with `behind` values sent and not yet received:
\* more than the capacity and the oldest are overwritten, recv is Err(Lagged)
RecvResult(behind) ==
  IF behind > BROADCAST_CAPACITY THEN "Lagged"
  ELSE IF behind > 0 THEN "Ok"
  ELSE "Pending"

\* ws::start(req, factory): reload_tx.subscribe() and the spawned task
Connect(s) ==
  /\ subs[s].task \in {"none", "ended"}
  /\ subs[s].conn \in {"none", "closed"}
  /\ subs' = [subs EXCEPT ![s] = [NoSub EXCEPT !.task = "recv",
                                               !.conn = "open",
                                               !.pos = Len(ring)]]
  /\ UNCHANGED <<file, readable, rx, watcherVars, content, ring, readers,
                 published, writes, inj, src>>

\* The peer closes or drops the connection
Disconnect(s) ==
  /\ subs[s].conn = "open"
  /\ subs' = [subs EXCEPT ![s] = Closed(subs[s])]
  /\ UNCHANGED <<file, readable, rx, watcherVars, content, ring, readers,
                 published, writes, inj, src>>

\* while let Ok(_) = reload_rx.recv().await
TaskRecv(s) ==
  /\ subs[s].task = "recv"
  /\ LET r == RecvResult(Len(ring) - subs[s].pos)
     IN /\ r # "Pending"
        /\ subs' = IF r = "Ok"
                     THEN [subs EXCEPT ![s].task = "send", ![s].pos = @ + 1]
                     ELSE [subs EXCEPT ![s] = Ended(subs[s], "lagged")]
  /\ UNCHANGED <<file, readable, rx, watcherVars, content, ring, readers,
                 published, writes, inj, src>>

\* sink_clone.send(ws::Message::Text("reload".into())).await, break on Err
TaskSend(s) ==
  /\ subs[s].task = "send"
  /\ subs' = IF subs[s].conn = "open"
               THEN [subs EXCEPT ![s].task = "recv",
                                 ![s].wire = Append(@, RELOAD)]
               ELSE [subs EXCEPT ![s] = Ended(subs[s], "sink")]
  /\ UNCHANGED <<file, readable, rx, watcherVars, content, ring, readers,
                 published, writes, inj, src>>

(***************************************************************************)
(* server.rs: the request handlers.  A handler loads the slot and answers  *)
(* from the PreparedContent it got; style_css loads once more before, for  *)
(* its log line.                                                           *)
(*   seen: ghost, the generation of the reader's latest load               *)
(*   prev: ghost, the generation of the load before that one               *)
(***************************************************************************)
Handlers == {"index", "style_css", "script_js"}

\* A fault for comparison: a load that answers from a copy of the slot
\* refreshed on every second generation only
LaggingLoad(slot) ==
  IF slot.gen % 2 = 1 THEN [snap |-> published[1], gen |-> 1] ELSE slot

\* ArcSwap::load
ArcSwapLoad(slot) == slot

\* The content_getter closures of index, style_css and script_js
ContentGetter(handler, prepared) ==
  CASE handler = "index" -> HtmlInjectedOf(prepared)
    [] handler = "style_css" -> ParsedOf(prepared).styling
    [] handler = "script_js" -> ParsedOf(prepared).script

\* style_css: let prepared = data.content.load(), for the log line
StyleCssLog(r) ==
  /\ readers[r].pc = "idle"
  /\ readers' = [readers EXCEPT ![r].pc = "logged",
                                ![r].handler = "style_css",
                                ![r].guard = Some(ArcSwapLoad(content)),
                                ![r].seen = ArcSwapLoad(content).gen,
                                ![r].prev = readers[r].seen]
  /\ UNCHANGED <<file, readable, rx, watcherVars, content, ring, subs,
                 published, writes, inj, src>>

\* serve_content: let prepared = data.content.load()
ServeLoad(r, h) ==
  /\ \/ readers[r].pc = "idle" /\ h # "style_css"
     \/ readers[r].pc = "logged" /\ h = "style_css"
  /\ readers' = [readers EXCEPT ![r].pc = "loaded",
                                ![r].handler = h,
                                ![r].guard = Some(ArcSwapLoad(content)),
                                ![r].seen = ArcSwapLoad(content).gen,
                                ![r].prev = readers[r].seen]
  /\ UNCHANGED <<file, readable, rx, watcherVars, content, ring, subs,
                 published, writes, inj, src>>

\* serve_content: match content_getter(&prepared): 200 with the body, or
\* 404.  The response leaves the program; Response(r) is what it carries
Response(r) ==
  ContentGetter(readers[r].handler, Unwrap(readers[r].guard).snap)

ServeRespond(r) ==
  /\ readers[r].pc = "loaded"
  /\ readers' = [readers EXCEPT ![r].pc = "idle"]
  /\ UNCHANGED <<file, readable, rx, watcherVars, content, ring, subs,
                 published, writes, inj, src>>

(***************************************************************************)
(* The system.                                                             *)
(***************************************************************************)

InjOff == [state |-> "off"]
SrcOff == [state |-> "off"]

\* main: the first load is fatal when it fails; watch_file starts the thread
InitSystem ==
  /\ file = 1
  /\ readable = TRUE
  /\ rx = <<>>
  /\ wpc = "select"
  /\ last_event_time = None
  /\ waited = 0
  /\ new_prepared = None
  /\ last_fingerprint = FingerprintOf(Built(file))
  /\ content = [snap |-> Built(file), gen |-> 1]
  /\ ring = <<>>
  /\ subs = [s \in SubIds |-> NoSub]
  /\ readers = [r \in ReaderIds |->
                  [pc |-> "idle", handler |-> "index", guard |-> None,
                   seen |-> 0, prev |-> 0]]
  /\ published = <<Built(file)>>
  /\ writes = 0
  /\ pass = NoPass
  /\ cycle = NoBurst

Init == InitSystem /\ inj = InjOff /\ src = SrcOff

Environment ==
  \/ \E d \in DocIds : WriteFile(d)
  \/ RemoveFile
  \/ \E e \in BackendEvents : BackendEvent(e)
  \/ \E t \in TimeSteps : Advance(t)

Watcher ==
  \/ WatcherRecv
  \/ WatcherTimeout
  \/ WatcherLoad
  \/ WatcherStore
  \/ WatcherSetFingerprint
  \/ WatcherSend
  \/ WatcherClear

LiveReload ==
  \/ \E s \in SubIds : Connect(s)
  \/ \E s \in SubIds : Disconnect(s)
  \/ \E s \in SubIds : TaskRecv(s)
  \/ \E s \in SubIds : TaskSend(s)

Requests ==
  \/ \E r \in ReaderIds : StyleCssLog(r)
  \/ \E r \in ReaderIds, h \in Handlers : ServeLoad(r, h)
  \/ \E r \in ReaderIds : ServeRespond(r)

\* The request handlers only read the slot and the live-reload tasks only
\* read the channel, so each is checked against the watcher on its own.
NextStore == Environment \/ Watcher \/ Requests
NextNotify == Environment \/ Watcher \/ LiveReload

SpecStore == Init /\ [][NextStore]_vars
SpecNotify == Init /\ [][NextNotify]_vars

\* The watcher and its environment alone, the thread scheduled fairly and
\* time passing: the loop of watch_file has no exit, and the select returns
\* on an event or after the tick
NextLive == Environment \/ Watcher
SpecLive ==
  /\ Init
  /\ [][NextLive]_vars
  /\ WF_vars(Watcher)
  /\ WF_vars(\E t \in TimeSteps : Advance(t))

\* The watcher with the request handlers and with one live-reload
\* connection, for what is said of every operation of the program at once;
\* the events are those of the writes
LiveReloadOne ==
  \/ Connect(1)
  \/ Disconnect(1)
  \/ TaskRecv(1)
  \/ TaskSend(1)

Writes ==
  \/ \E d \in DocIds : WriteFile(d)
  \/ RemoveFile
  \/ \E t \in TimeSteps : Advance(t)

NextAll == Writes \/ Watcher \/ LiveReloadOne \/ Requests
SpecAll == Init /\ [][NextAll]_vars

(***************************************************************************)
(* parser.rs: inject_links_once on its own.  The markup is a run of tag    *)
(* fragments, each used at most once and in any order, or the document of  *)
(* the title example.                                                      *)
(***************************************************************************)
MaxFragments == 4

TITLE_ELEMENT == TITLE_OPEN \o <<"F","o","o">> \o TITLE_CLOSE

Fragments == <<HTML_OPEN, HEAD_OPEN, TITLE_ELEMENT, HEAD_CLOSE, BODY_CLOSE>>

TitleExample ==
  HTML_OPEN \o HEAD_OPEN \o TITLE_ELEMENT \o HEAD_CLOSE
    \o <<"<","b","o","d","y",">">> \o BODY_CLOSE
    \o <<"<","/","h","t","m","l",">">>

FragmentRuns ==
  {run \in UNION {[1..n -> 1..Len(Fragments)] : n \in 0..MaxFragments} :
     \A i, j \in DOMAIN run : i # j => run[i] # run[j]}

RECURSIVE Concat(_)
Concat(run) ==
  IF run = <<>> THEN <<>> ELSE Fragments[Head(run)] \o Concat(Tail(run))

\* Markup with unmatched, repeated and out-of-order tags: every run of up
\* to MaxTags of these tags, repetitions included
MaxTags == 3

MalformedTags == <<TITLE_OPEN, TITLE_CLOSE, HEAD_CLOSE, BODY_CLOSE>>

TagRuns == UNION {[1..n -> 1..Len(MalformedTags)] : n \in 0..MaxTags}

RECURSIVE ConcatTags(_)
ConcatTags(run) ==
  IF run = <<>> THEN <<>> ELSE MalformedTags[Head(run)] \o ConcatTags(Tail(run))

\* The document of the no-head example
NoHeadExample ==
  HTML_OPEN \o <<"<","b","o","d","y",">","H","i">> \o BODY_CLOSE
    \o <<"<","/","h","t","m","l",">">>

Markups ==
  {Concat(run) : run \in FragmentRuns}
    \cup {ConcatTags(run) : run \in TagRuns}
    \cup {TitleExample, NoHeadExample}

InjInputs ==
  [state : {"input"}, html : Markups, has_css : BOOLEAN, has_js : BOOLEAN,
   fingerprint : {0, HashModulus - 1}]

\* The result of inject_links_once, next to its arguments
Injected(in, r) ==
  [state |-> "done", html |-> in.html, has_css |-> in.has_css,
   has_js |-> in.has_js, fingerprint |-> in.fingerprint, panic |-> r.panic,
   out |-> r.out]

\* let html_injected = inject_links_once(markup, has_css, has_js, fingerprint)
Inject ==
  /\ inj.state = "input"
  /\ inj' = Injected(inj, inject_links_once(inj.html, inj.has_css, inj.has_js,
                                            inj.fingerprint))
  /\ UNCHANGED <<file, readable, rx, watcherVars, content, ring, subs, readers,
                 published, writes, src>>

InitInject == InitSystem /\ inj \in InjInputs /\ src = SrcOff
NextInject == Inject
SpecInject == InitInject /\ [][NextInject]_vars

(***************************************************************************)
(* parser.rs: parse_breach_content and the styling step of prepare on      *)
(* their own.  The source is a run of up to MaxLines lines, each one of    *)
(* SourceLines: markers in lower case, in upper case behind whitespace,    *)
(* with a keyword that is no section, and content.                         *)
(***************************************************************************)
MaxLines == 4

SourceLines ==
  << <<"BROKEN_BAR","h","t","m","l">>,
     <<" ","BROKEN_BAR","C","S","S">>,
     <<"BROKEN_BAR","c","s","s">>,
     <<"BROKEN_BAR","s","c","s","s">>,
     <<"BROKEN_BAR","j","s">>,
     <<"BROKEN_BAR","f","o","o">>,
     <<"a">>,
     <<"b">>,
     <<" ">> >>

LineRuns == UNION {[1..n -> 1..Len(SourceLines)] : n \in 0..MaxLines}

\* The text of the file: the lines, a newline between them
TextOf(run) == join([i \in DOMAIN run |-> SourceLines[run[i]]], <<"\n">>)

SrcInputs == [state : {"input"}, run : LineRuns]

\* let parsed = parse_breach_content(&s)
Parse ==
  /\ src.state = "input"
  /\ src' = [state |-> "parsed", run |-> src.run,
             parsed |-> parse_breach_content(TextOf(src.run))]
  /\ UNCHANGED <<file, readable, rx, watcherVars, content, ring, subs, readers,
                 published, writes, inj>>

\* prepare: parsed.styling = final_css.clone()
Style ==
  /\ src.state = "parsed"
  /\ src' = [state |-> "styled", run |-> src.run, parsed |-> src.parsed,
             css |-> FinalCss(src.parsed.styling,
                              process_styling_content(
                                Unwrap(src.parsed.styling)))]
  /\ UNCHANGED <<file, readable, rx, watcherVars, content, ring, subs, readers,
                 published, writes, inj>>

InitParse == InitSystem /\ inj = InjOff /\ src \in SrcInputs
NextParse == Parse \/ Style
SpecParse == InitParse /\ [][NextParse]_vars

(***************************************************************************)
(* Properties.                                                             *)
(***************************************************************************)
\* The snapshot a reader holds
Held(r) == Unwrap(readers[r].guard)

\* The values of a snapshot are those of one run of the pipeline
OneGeneration(p) ==
  \E d \in DocIds : ~Loaded[d].panic /\ ValueOf(p) = Loaded[d].prepared

\* C1: every snapshot a reader obtains from the slot is one of the published
\* snapshots (the startup one included), whole: its sections, its injected
\* markup and its fingerprint come from the same run of the pipeline.
C1_SnapshotAtomicity ==
  \A r \in ReaderIds :
    IsSome(readers[r].guard) =>
      /\ Held(r).gen \in 1..Len(published)
      /\ Held(r).snap = published[Held(r).gen]
      /\ OneGeneration(Held(r).snap)

\* A reader holds a snapshot published after startup
C1_Witness ==
  \E r \in ReaderIds :
    /\ readers[r].pc = "loaded"
    /\ Held(r).gen >= 2
    /\ ValueOf(Held(r).snap) # ValueOf(published[1])

\* C6: the generations one reader gets from successive loads never go back,
\* whatever publishes come between them.
C6_MonotonicGenerations ==
  \A r \in ReaderIds : readers[r].seen >= readers[r].prev

\* A reader loaded the startup snapshot and then, after a publish, the next
C6_Witness ==
  \E r \in ReaderIds : readers[r].prev = 1 /\ readers[r].seen = 2

\* C2: a reload pass that loads a snapshot with the fingerprint of the
\* snapshot in the store takes the unchanged branch, and up to its end the
\* store and the broadcast channel are as they were when it started.
C2_ChangeSuppression ==
  (/\ pass.outcome \in {"Changed", "Unchanged"}
   /\ FingerprintOf(Built(pass.read)) = FingerprintOf(pass.content.snap))
    => /\ pass.outcome = "Unchanged"
       /\ content = pass.content
       /\ ring = pass.ring

\* A pass over a rewritten file with the same sections ends with a listener
\* connected
C2_Witness ==
  /\ wpc = "clear"
  /\ pass.outcome = "Unchanged"
  /\ pass.read # content.snap.parsed
  /\ Listeners # {}

\* C3: one burst of matching events gets one reload pass: at most one read
\* of the file, at most one publish, at most one broadcast, exactly one read
\* once the pass is through, and what is published is what that read found.
C3_DebounceCoalescing ==
  /\ cycle.reads <= 1
  /\ cycle.publishes <= cycle.reads
  /\ cycle.broadcasts <= cycle.publishes
  /\ wpc = "clear" => cycle.reads = 1 /\ cycle.events >= 1
  /\ wpc \in {"set_fingerprint", "send", "clear"} /\ pass.outcome = "Changed"
       => /\ cycle.publishes = 1
          /\ content.snap = Built(pass.read)

\* A burst of two events and more was answered by one pass that published
\* and broadcast
C3_Witness ==
  /\ wpc = "clear"
  /\ cycle.events >= 2
  /\ cycle.publishes = 1
  /\ cycle.broadcasts = 1

\* C5: every signal in the broadcast channel announces a generation that
\* the store already holds, or an earlier one.
C5_PublishBeforeBroadcast ==
  \A i \in DOMAIN ring : ring[i] <= content.gen

\* A subscriber was sent the signal of a change
C5_Witness ==
  \E s \in SubIds : subs[s].conn = "open" /\ subs[s].wire # <<>>

\* C4: a reload pass whose load fails leaves the store, the channel and
\* last_fingerprint as they were and goes on to clear the pending timestamp.
C4_FailedPassReturnsToIdle ==
  pass.outcome \in {"Err", "Panic"} =>
    /\ content = pass.content
    /\ ring = pass.ring
    /\ last_fingerprint = pass.last_fingerprint
    /\ wpc = "clear"

\* C7: a subscriber with an open connection whose forwarding task is over
\* was sent every broadcast made while it was subscribed.
C7_EveryBroadcastForwarded ==
  \A s \in SubIds :
    subs[s].conn = "open" /\ subs[s].task = "ended" =>
      Len(subs[s].wire) >= subs[s].heard

\* C8: after a sink failure of one subscriber, no other subscriber with an
\* open connection has lost its forwarding task with broadcasts unsent.
C8_SinkFailureIsolated ==
  \A s, t \in SubIds :
    (/\ s # t
     /\ subs[s].end = "sink"
     /\ subs[t].conn = "open"
     /\ subs[t].task = "ended")
      => Len(subs[t].wire) = subs[t].heard

\* A subscriber that has nothing left to receive, between passes
Settled(s) ==
  /\ subs[s].conn = "open"
  /\ wpc \notin {"set_fingerprint", "send"}
  /\ \/ subs[s].task = "ended"
     \/ subs[s].task = "recv" /\ subs[s].pos = Len(ring)

\* C9: between passes a burst has as many broadcasts as publishes, a settled
\* subscriber was sent one message per publish made while it was
\* subscribed, and every message is the text "reload".
C9_OneSignalPerPublish ==
  /\ wpc \in {"select", "load", "clear"} => cycle.broadcasts = cycle.publishes
  /\ \A s \in SubIds : Settled(s) => Len(subs[s].wire) = subs[s].pubs
  /\ \A s \in SubIds : \A i \in DOMAIN subs[s].wire : subs[s].wire[i] = RELOAD

\* The number of places where n occurs in h
Occurrences(h, n) ==
  Cardinality({i \in 0..(Len(h) - Len(n)) : SubSeq(h, i + 1, i + Len(n)) = n})

\* C10: with styling present, markup with one title element comes out of
\* inject_links_once with that title element, once.
C10_TitlePreserved ==
  (/\ inj.state = "done"
   /\ inj.has_css
   /\ Occurrences(inj.html, TITLE_OPEN) = 1
   /\ Occurrences(inj.html, TITLE_ELEMENT) = 1)
    => /\ ~inj.panic
       /\ Occurrences(inj.out, TITLE_ELEMENT) = 1

\* C11: inject_links_once returns an output for every markup, malformed
\* markup included: no run of the injector ends in a panic.
C11_MalformedNeverPanics == inj.state = "done" => ~inj.panic

\* The places (from 0) where n occurs in h, and the first of them
Places(h, n) ==
  {i \in 0..(Len(h) - Len(n)) : SubSeq(h, i + 1, i + Len(n)) = n}

FirstAt(h, n) == CHOOSE i \in Places(h, n) : \A j \in Places(h, n) : i <= j

\* h has n at place i
HasAt(h, i, n) == i \in Places(h, n)

\* The stylesheet link of a run of the injector, and the markup and the
\* title that the title removal leaves
Link == LINK_PREFIX \o to_decimal(inj.fingerprint) \o LINK_SUFFIX
Base == extract_and_remove_title(inj.html).result
SavedTitle == extract_and_remove_title(inj.html).title
SavedTitleLine ==
  IF IsSome(SavedTitle)
    THEN INDENT \o TITLE_OPEN \o Unwrap(SavedTitle) \o TITLE_CLOSE
    ELSE <<>>

\* The head block that the injector synthesises, with or without the meta:
\* the link, the saved title, the closing tag.  A title whose text holds a
\* </body> takes a script in, and the block is then compared up to the link
HeadBlock(meta) ==
  HEAD_OPEN \o meta \o INDENT \o Link
    \o (IF Places(SavedTitleLine, BODY_CLOSE) = {}
          THEN SavedTitleLine \o <<"\n">> \o HEAD_CLOSE
          ELSE INDENT \o TITLE_OPEN)

\* C12: with styling present the output has the stylesheet link once: right
\* before the first </head> if the markup without its title has one; else
\* right after the first <head>; else in a head block with the saved title,
\* synthesised right after the first <html>, the only head of the output;
\* else in a head block with the charset meta and the saved title at the
\* start of the output.
C12_LinkPlacement ==
  (inj.state = "done" /\ inj.has_css /\ ~inj.panic) =>
    /\ Cardinality(Places(inj.out, Link)) = 1
    /\ IF Places(Base, HEAD_CLOSE) # {}
         THEN FirstAt(inj.out, Link) + Len(Link) = FirstAt(inj.out, HEAD_CLOSE)
       ELSE IF Places(Base, HEAD_OPEN) # {}
         THEN HasAt(inj.out, FirstAt(inj.out, HEAD_OPEN) + Len(HEAD_OPEN),
                    INDENT \o Link)
       ELSE IF Places(Base, HTML_OPEN) # {}
         THEN /\ HasAt(inj.out, FirstAt(inj.out, HTML_OPEN) + Len(HTML_OPEN),
                       <<"\n">> \o HeadBlock(<<>>))
              /\ Cardinality(Places(inj.out, HEAD_OPEN)) = 1
              /\ Cardinality(Places(inj.out, HEAD_CLOSE)) = 1
       ELSE HasAt(inj.out, 0, HeadBlock(INDENT \o META_CHARSET))

\* The no-head example went through the injector with styling present and
\* came out with one head
C12_Witness ==
  /\ inj.state = "done"
  /\ inj.has_css
  /\ inj.html = NoHeadExample
  /\ Cardinality(Places(inj.out, HEAD_OPEN)) = 1

\* What each of SourceLines is to be taken for: the section its marker
\* names, or content
ExpectedRole ==
  <<"html", "css", "css", "scss", "js", "content", "content", "content",
    "content">>

\* The section that is active after line i of the run
RECURSIVE ActiveAt(_, _)
ActiveAt(run, i) ==
  IF i = 0 THEN "none"
  ELSE IF ExpectedRole[run[i]] # "content" THEN ExpectedRole[run[i]]
  ELSE ActiveAt(run, i - 1)

\* The content lines of the run that lie in one of the sections, in order
ContentIn(run, sections) ==
  {i \in DOMAIN run :
     ExpectedRole[run[i]] = "content" /\ ActiveAt(run, i) \in sections}

\* The styling lines of the run that are the only styling line of their text
SoleStylingLines(run) ==
  {i \in ContentIn(run, {"css", "scss"}) :
     /\ trim(SourceLines[run[i]]) # <<>>
     /\ \A j \in ContentIn(run, {"css", "scss"}) :
          run[j] = run[i] => j = i}

\* C13: two styling lines of the source come out in the final CSS in the
\* order they have in the source, whatever the kinds of their blocks.
C13_StylingInDocumentOrder ==
  src.state = "styled" =>
    \A i, j \in SoleStylingLines(src.run) :
      i < j =>
        /\ IsSome(src.css)
        /\ FirstAt(Unwrap(src.css), SourceLines[src.run[i]])
             < FirstAt(Unwrap(src.css), SourceLines[src.run[j]])

\* The content lines of one section of the run, in order, from line i on
RECURSIVE Gather(_, _, _)
Gather(run, i, section) ==
  IF i > Len(run) THEN <<>>
  ELSE (IF i \in ContentIn(run, {section})
          THEN <<SourceLines[run[i]]>> ELSE <<>>)
         \o Gather(run, i + 1, section)

\* Those lines, a newline between them
Joined(run, section) == join(Gather(run, 1, section), <<"\n">>)

Blank(text) == \A k \in DOMAIN text : text[k] \in {" ", "\n"}

\* What a section of markup or script is to be: its lines as they are,
\* absent when there is nothing but whitespace
ExpectedSection(text) == IF Blank(text) THEN None ELSE Some(text)

\* The styling holds the lines of the CSS or SCSS blocks between the tags
HoldsBlock(styling, tag, text) ==
  IF Blank(text) THEN ~IsSome(styling) \/ Places(Unwrap(styling), tag) = {}
  ELSE /\ IsSome(styling)
       /\ Places(Unwrap(styling),
                 tag \o <<"\n">> \o text \o <<"\n">> \o EOF_TAG) # {}

\* C14: a line that is the marker glyph and a section keyword, in any case
\* and behind whitespace, switches the section and is not content; a line
\* before the first marker is dropped; every other line, a marker-like line
\* with another keyword included, is content of the active section, and
\* the lines of all blocks of one section follow one another in the order
\* of the source.
C14_MarkerParsing ==
  src.state = "parsed" =>
    /\ src.parsed.markup = ExpectedSection(Joined(src.run, "html"))
    /\ src.parsed.script = ExpectedSection(Joined(src.run, "js"))
    /\ HoldsBlock(src.parsed.styling, CSS_TAG, Joined(src.run, "css"))
    /\ HoldsBlock(src.parsed.styling, SCSS_TAG, Joined(src.run, "scss"))

\* A source of a line before any marker, an upper-case marker behind a
\* space, a marker-like line with an unknown keyword and a content line was
\* parsed: the two last lines are the CSS block
C14_Witness ==
  /\ src.state = "parsed"
  /\ src.run = <<7, 2, 6, 8>>
  /\ src.parsed.markup = None
  /\ src.parsed.styling =
       Some(CSS_TAG \o <<"\n", "BROKEN_BAR", "f", "o", "o", "\n", "b", "\n">>
              \o EOF_TAG)

\* A section with no whitespace at its start or at its end
Trimmed(text) ==
  /\ text # <<>>
  /\ ~Blank(<<text[1]>>)
  /\ ~Blank(<<text[Len(text)]>>)

\* C15: each section that parse_breach_content returns is absent or
\* trimmed, and is absent exactly when its lines are all whitespace or it
\* has none.
C15_SectionsTrimmed ==
  src.state = "parsed" =>
    /\ \A f \in {"markup", "styling", "script"} :
         IsSome(src.parsed[f]) => Trimmed(Unwrap(src.parsed[f]))
    /\ IsSome(src.parsed.markup) <=> ~Blank(Joined(src.run, "html"))
    /\ IsSome(src.parsed.script) <=> ~Blank(Joined(src.run, "js"))
    /\ IsSome(src.parsed.styling) <=>
         ~(Blank(Joined(src.run, "css")) /\ Blank(Joined(src.run, "scss")))

\* C16: a pass that published and whose broadcast failed for want of a
\* receiver has the new snapshot in the store and its fingerprint in
\* last_fingerprint, has queued nothing, and the thread goes on: its next
\* step clears the pending timestamp and returns to the select with the
\* store as it is.
C16_FailedBroadcastAbsorbed ==
  /\ [](pass.outcome = "Changed" /\ pass.send = "Err" =>
          /\ wpc = "clear"
          /\ content = [snap |-> Built(pass.read), gen |-> pass.gen]
          /\ published[Len(published)] = Built(pass.read)
          /\ last_fingerprint = FingerprintOf(Built(pass.read))
          /\ ring = pass.ring)
  /\ [][pass.outcome = "Changed" /\ pass.send = "Err" /\ wpc' # wpc =>
          /\ wpc' = "select"
          /\ last_event_time' = None
          /\ content' = content
          /\ last_fingerprint' = last_fingerprint]_vars

\* A changed file was published and the broadcast found no receiver
C16_Witness ==
  /\ pass.outcome = "Changed"
  /\ pass.send = "Err"
  /\ content.gen = 2
  /\ ValueOf(content.snap) # ValueOf(published[1])

\* C17: the watcher taking an event off the queue sets the pending
\* timestamp to now when the event is a Modify of the watched path, whatever
\* the timestamp was, and leaves it alone for any other event; and a reload
\* pass begins only when the debounce threshold has passed since the last
\* such event was taken.
C17_DebounceTimestamp ==
  /\ [][wpc = "select" /\ rx # <<>> /\ rx' = Tail(rx) =>
          IF Head(rx).kind = "Modify" /\ Head(rx).watched
            THEN last_event_time' = Some(0)
            ELSE last_event_time' = last_event_time]_vars
  /\ [](wpc = "load" => cycle.events >= 1 /\ cycle.quiet >= DEBOUNCE_MS)

\* A pass begins after a burst of two events, the second of which moved the
\* timestamp
C17_Witness == wpc = "load" /\ cycle.events = 2

\* The positions of the watcher thread inside a reload pass
InPass == wpc \in {"load", "store", "set_fingerprint", "send", "clear"}

\* A pass begins only when none is in progress
OnePassAtATime == [][wpc = "load" /\ wpc' # wpc => pass = NoPass]_vars

\* During a pass the queue only grows, and an arrival changes nothing of
\* the pass
ArrivalsLeavePassAlone ==
  [][InPass /\ rx' # rx =>
       /\ \E e \in BackendEvents : rx' = Append(rx, e)
       /\ wpc' = wpc
       /\ pass' = pass
       /\ new_prepared' = new_prepared
       /\ last_fingerprint' = last_fingerprint
       /\ content' = content
       /\ ring' = ring]_vars

\* The last step of a pass clears the timestamp and returns to the select
\* with the queue as it is; only there are events taken
PassEndsAtSelect ==
  [][/\ (wpc = "clear" /\ wpc' # wpc =>
           wpc' = "select" /\ last_event_time' = None /\ rx' = rx)
     /\ (rx # <<>> /\ rx' = Tail(rx) => wpc = "select" /\ pass = NoPass)]_vars

\* No event is left in the queue of a thread that has ended
NoStrandedEvent == [](rx # <<>> => wpc # "dead")

\* C18: one reload pass at a time; an event that arrives during a pass
\* leaves the pass as it is and stays in the queue until the pass has
\* cleared the timestamp and the thread is back at the select, where it is
\* taken; it is never left behind.
C18_OnePassAtATime ==
  /\ OnePassAtATime
  /\ ArrivalsLeavePassAlone
  /\ PassEndsAtSelect
  /\ NoStrandedEvent

\* C19: the slot changes only in the store step of a reload pass that
\* found the fingerprint changed, and to the snapshot that pass loaded;
\* every other step of the watcher, of the environment, of a live-reload
\* connection and of a request handler leaves it as it is, and the body of
\* an index response is the injected markup of the snapshot it loaded.
C19_StoreFrame ==
  /\ [][content' # content =>
          /\ wpc = "store"
          /\ wpc' = "set_fingerprint"
          /\ pass.outcome = "Changed"
          /\ content'.snap = Unwrap(new_prepared)
          /\ content'.snap = Built(pass.read)]_vars
  /\ [](\A r \in ReaderIds :
          readers[r].pc = "loaded" /\ readers[r].handler = "index" =>
            Response(r) = Loaded[Held(r).snap.parsed].prepared.html_injected)

\* After a publish: a handler between its load and its response, a
\* connection open, a signal in the channel
C19_Witness ==
  /\ content.gen = 2
  /\ \E r \in ReaderIds : readers[r].pc = "loaded"
  /\ subs[1].conn = "open"
  /\ ring # <<>>

\* From some point on no event arrives in the queue
EventsCease == <>[][Len(rx') <= Len(rx)]_vars

\* A consumed matching event is followed by a reload pass
PendingLeadsToPass ==
  EventsCease =>
    ((IsSome(last_event_time) /\ wpc = "select") ~> wpc = "load")

\* The file stays as it is, and loadable
Loadable == readable /\ ~Loaded[file].panic

\* The store holds a snapshot with the fingerprint of the file's content
Synced ==
  /\ ~Loaded[file].panic
  /\ FingerprintOf(content.snap) = FingerprintOf(Built(file))

FinalContentPublished == EventsCease /\ <>[]Loadable => <>[]Synced

\* C20: with the thread scheduled fairly and the events ceasing, a consumed
\* matching event is followed by a reload pass, and when the file ends up
\* loadable the store ends up with a snapshot of the fingerprint of its
\* final content.
C20_WatcherLiveness == PendingLeadsToPass /\ FinalContentPublished


(***************************************************************************)
(* The watcher's last_fingerprint and the fingerprint of the store.        *)
(***************************************************************************)
\* The watcher is between content.store and the assignment to
\* last_fingerprint
InPublish == wpc = "set_fingerprint"

StoreFingerprint == FingerprintOf(content.snap)

\* C21: in every reachable state in which the watcher is not in the middle
\* of its publish step, last_fingerprint equals the fingerprint of the
\* snapshot the store holds, so the comparison of a pass with
\* last_fingerprint has the outcome of the comparison with the store's
\* fingerprint; at startup, after a publish, after a suppressed pass and
\* after a failed pass.
C21_LastFingerprintIsStore ==
  /\ ~InPublish => last_fingerprint = StoreFingerprint
  /\ wpc = "load" =>
       LET loaded == load_prepared_from_file(file, readable)
       IN PassOutcome(loaded, last_fingerprint)
            = PassOutcome(loaded, StoreFingerprint)

\* A pass has failed after a publish: the file was changed and published,
\* then made unreadable and touched
C21_Witness ==
  /\ wpc = "clear"
  /\ pass.outcome = "Err"
  /\ Len(published) = 2
  /\ last_fingerprint # FingerprintOf(published[1])

\* C22: in the sequence of the snapshots the store has held, the startup
\* one first, no snapshot has the fingerprint of the one before it.
C22_ConsecutiveSnapshotsDiffer ==
  \A i \in 2..Len(published) :
    FingerprintOf(published[i]) # FingerprintOf(published[i - 1])

\* Two publishes, the second of the content the program started with: equal
\* fingerprints two apart, different ones side by side
C22_Witness ==
  /\ Len(published) = 3
  /\ FingerprintOf(published[3]) = FingerprintOf(published[1])
  /\ wpc = "select"

=============================================================================
